---- MODULE Spec2Model ----
(***************************************************************************)
(* Model of the LangGraph SQL question-answering agent of qa_agent.py.     *)
(*                                                                         *)
(* One run of run_question is a walk through the compiled graph            *)
(*   START -> load_schema -> attempt -> gen_sql -> exec_sql                *)
(*                              ^                     |                    *)
(*                              +------ (retry) ------+                    *)
(*                                                    +-> answer -> END    *)
(* over one shared dict, `state`.  The language model and the database are *)
(* injected collaborators: every response text and every database outcome  *)
(* is a nondeterministic input of the step that consumes it.               *)
(*                                                                         *)
(* Text is a sequence of atoms.  An atom is a single character ("S", " ",  *)
(* "\n", ";") or, for fixed literal text of the program whose inner        *)
(* characters no operation inspects, one opaque chunk that contains at     *)
(* least one non-blank character ("Fix it.").  The string operations of    *)
(* the source (strip, rstrip, lower, startswith, in, find, rfind, dedent)  *)
(* are computed on these sequences as Python computes them on strings.     *)
(***************************************************************************)
EXTENDS Integers, Sequences, FiniteSets, TLC

VARIABLES cfg, state, pc, exc, llm_calls, db_calls

vars == <<cfg, state, pc, exc, llm_calls, db_calls>>

(***************************************************************************)
(* Bounds of the model.                                                    *)
(***************************************************************************)
MaxAttemptsBound == 2   \* cfg.max_attempts ranges over 1..MaxAttemptsBound
MaxRowsBound == 2       \* cfg.max_rows ranges over 1..MaxRowsBound
TableRows == 3          \* number of rows an unlimited query can return

(***************************************************************************)
(* Python string operations on texts.                                      *)
(***************************************************************************)
UpperChars == <<"A","B","C","D","E","F","G","H","I","J","K","L","M",
                "N","O","P","Q","R","S","T","U","V","W","X","Y","Z">>
LowerChars == <<"a","b","c","d","e","f","g","h","i","j","k","l","m",
                "n","o","p","q","r","s","t","u","v","w","x","y","z">>
DigitChars == <<"0","1","2","3","4","5","6","7","8","9">>

\* str.lower() on one character; chunks and non-letters are unchanged
LowerChar(c) ==
    IF \E i \in 1..26 : UpperChars[i] = c
    THEN LowerChars[CHOOSE i \in 1..26 : UpperChars[i] = c]
    ELSE c

\* str.lower()
Lower(s) == [i \in 1..Len(s) |-> LowerChar(s[i])]

\* the characters str.strip() removes
IsSpace(c) == c \in {" ", "\n", "\t", "\r"}

SetMin(S) == CHOOSE x \in S : \A y \in S : x <= y
SetMax(S) == CHOOSE x \in S : \A y \in S : x >= y

\* str.strip()
Strip(s) ==
    LET keep == {i \in 1..Len(s) : ~IsSpace(s[i])}
    IN  IF keep = {} THEN <<>> ELSE SubSeq(s, SetMin(keep), SetMax(keep))

\* str.rstrip(";")
RStripSemi(s) ==
    LET keep == {i \in 1..Len(s) : s[i] # ";"}
    IN  IF keep = {} THEN <<>> ELSE SubSeq(s, 1, SetMax(keep))

\* str.startswith(p)
StartsWith(s, p) == Len(s) >= Len(p) /\ SubSeq(s, 1, Len(p)) = p

\* str.endswith(p)
EndsWith(s, p) == Len(s) >= Len(p) /\ SubSeq(s, Len(s) - Len(p) + 1, Len(s)) = p

\* p in s
Contains(s, p) == \E i \in 0..(Len(s) - Len(p)) : SubSeq(s, i + 1, i + Len(p)) = p

\* str.find(c) and str.rfind(c), 0-based as in Python, -1 when absent
Find(s, c) ==
    LET hit == {i \in 1..Len(s) : s[i] = c}
    IN  IF hit = {} THEN -1 ELSE SetMin(hit) - 1
RFind(s, c) ==
    LET hit == {i \in 1..Len(s) : s[i] = c}
    IN  IF hit = {} THEN -1 ELSE SetMax(hit) - 1

\* str(n) for a natural number, as the f-string of the LIMIT clause formats it
RECURSIVE IntToText(_)
IntToText(n) ==
    IF n < 10 THEN <<DigitChars[n + 1]>>
    ELSE IntToText(n \div 10) \o <<DigitChars[(n % 10) + 1]>>

(***************************************************************************)
(* textwrap.dedent: lines that hold only blanks and tabs become empty, and *)
(* the longest common leading run of blanks of the other lines is removed  *)
(* from each of them.                                                      *)
(***************************************************************************)
IsBlank(c) == c \in {" ", "\t"}

\* the lines of a text, split at "\n" (the separators are dropped)
RECURSIVE SplitLines(_)
SplitLines(s) ==
    LET nl == Find(s, "\n")
    IN  IF nl = -1 THEN <<s>>
        ELSE <<SubSeq(s, 1, nl)>> \o SplitLines(SubSeq(s, nl + 2, Len(s)))

\* the lines of a text joined with "\n" again
RECURSIVE JoinLines(_)
JoinLines(ls) ==
    IF Len(ls) = 0 THEN <<>>
    ELSE IF Len(ls) = 1 THEN ls[1]
    ELSE ls[1] \o <<"\n">> \o JoinLines(Tail(ls))

BlankOnly(line) == \A i \in 1..Len(line) : IsBlank(line[i])

\* number of leading blanks of a line
LeadBlanks(line) ==
    LET stop == {i \in 1..Len(line) : ~IsBlank(line[i])}
    IN  IF stop = {} THEN Len(line) ELSE SetMin(stop) - 1

\* the common margin of the lines that are not blank-only
Margin(ls) ==
    LET idx == {i \in 1..Len(ls) : ~BlankOnly(ls[i])}
        upto == IF idx = {} THEN 0 ELSE SetMin({LeadBlanks(ls[i]) : i \in idx})
        same(k) == \A i, j \in idx : ls[i][k] = ls[j][k]
        agree == {n \in 0..upto : \A k \in 1..n : same(k)}
    IN  SetMax(agree)

Dedent(s) ==
    LET ls == SplitLines(s)
        m == Margin(ls)
        fix(line) == IF BlankOnly(line) THEN <<>> ELSE SubSeq(line, m + 1, Len(line))
    IN  JoinLines([i \in 1..Len(ls) |-> fix(ls[i])])

(***************************************************************************)
(* The shared dict.  A key that was never written is absent from           *)
(* DOMAIN state, which is what state.get(key) observes as None.            *)
(***************************************************************************)
Get(d, k, default) == IF k \in DOMAIN d THEN d[k] ELSE default

\* dict.update(**upd): the keys of upd are written, the others kept
Update(d, upd) == upd @@ d

EmptyDict == <<>>

\* truthiness of a str, list or dict value
Truthy(v) == v # <<>>

\* _trace: state.setdefault("trace", []).append({"ts_ms", "node", "data"}).
\* The wall-clock stamp ts_ms is read by no step and is left out of the event.
Trace(d, node, data) ==
    Update(d, "trace" :> Append(Get(d, "trace", <<>>), [node |-> node, data |-> data]))

(***************************************************************************)
(* Prompts.                                                                *)
(***************************************************************************)
\* the repair section of _sql_prompt
Repair(last_error) ==
    IF Truthy(last_error)
    THEN <<"\n", "Previous SQL failed: ">> \o last_error \o <<"\n", "Fix it.", "\n">>
    ELSE <<>>

\* the f-string of _sql_prompt before dedent and strip
SqlPromptRaw(question, schema, last_error) ==
    <<"\n",
      "You are a careful data assistant. Convert the user question into a single SQL SELECT query.", "\n",
      "Rules:", "\n",
      "- Use ONLY tables/columns in the schema. Prefer explicit JOINs.", "\n",
      "- If the question is ambiguous, ask for clarification instead of guessing.", "\n",
      "- Return STRICT JSON only (no markdown):", "\n",
      " ", " ", "{\"type\":\"sql\",\"sql\":\"...\",\"params\":{}}  or  {\"type\":\"clarify\",\"question\":\"...\"}", "\n",
      "Schema:", "\n">>
    \o schema
    \o <<"\n", "User question: ">> \o question \o Repair(last_error)
    \o <<"\n">>

_sql_prompt(question, schema, last_error) ==
    Strip(Dedent(SqlPromptRaw(question, schema, last_error)))

\* json.dumps of a list of ints, of a list of rows and of a list of names
RECURSIVE JoinComma(_)
JoinComma(parts) ==
    IF Len(parts) = 0 THEN <<>>
    ELSE IF Len(parts) = 1 THEN parts[1]
    ELSE parts[1] \o <<",", " ">> \o JoinComma(Tail(parts))

DumpList(parts) == <<"[">> \o JoinComma(parts) \o <<"]">>
DumpRow(r) == DumpList([i \in 1..Len(r) |-> IntToText(r[i])])
DumpRows(rows) == DumpList([i \in 1..Len(rows) |-> DumpRow(rows[i])])
DumpNames(cols) == DumpList([i \in 1..Len(cols) |-> <<"\"">> \o cols[i] \o <<"\"">>])

_answer_prompt(question, sql, columns, rows) ==
    Strip(Dedent(
        <<"\n",
          "You are a helpful assistant. Write a concise, human-readable answer grounded ONLY in the SQL result.", "\n",
          "If empty, say so and suggest a likely reason.", "\n",
          "User question: ">> \o question
        \o <<"\n", "SQL: ">> \o sql
        \o <<"\n", "Result: ", "{", "\"columns\": ">> \o DumpNames(columns)
        \o <<",", " ", "\"rows\": ">> \o DumpRows(rows) \o <<"}", "\n">>))

(***************************************************************************)
(* Inputs of a run: the question, what the database holds, and the texts   *)
(* the language model may answer with.                                     *)
(***************************************************************************)
Questions == {<<"q", "?">>}

\* the CREATE TABLE text _schema_text reads from the catalog
SchemaText == <<"t", "(", "a", ")", ";">>

\* query texts a model response can carry in its sql field
Q_plain == <<"S", "E", "L", "E", "C", "T", " ", "a">>
Q_lower == <<" ", "s", "e", "l", "e", "c", "t", " ", "a", " ", ";">>
Q_delete == <<"D", "E", "L", "E", "T", "E", " ", "a">>
Q_limit == <<"S", "E", "L", "E", "C", "T", " ", "a", " ", "L", "I", "M", "I", "T", " ", "9">>
Q_limit_nl == <<"S", "E", "L", "E", "C", "T", " ", "a", "\n", "L", "I", "M", "I", "T", " ", "9">>
Q_literal == <<"S", "E", "L", "E", "C", "T", " ", "'", " ", "l", "i", "m", "i", "t", " ", "'">>

\* JSON values: a str carries its text in s, a dict its members in d
JStr(text) == [t |-> "str", s |-> text, d |-> EmptyDict]
JInt == [t |-> "int", s |-> <<>>, d |-> EmptyDict]
JList == [t |-> "list", s |-> <<>>, d |-> EmptyDict]
JDict(members) == [t |-> "dict", s |-> <<>>, d |-> members]

T_sql == JStr(<<"sql">>)
T_clarify == JStr(<<"clarify">>)
T_query == JStr(<<"query">>)
NoParams == JDict(EmptyDict)
SomeParams == JDict("n" :> JInt)

\* the objects a response text can encode, by the name of the atom that
\* stands for the members between the braces
Payload(p) ==
    CASE p = "sql_plain" -> [type |-> T_sql, sql |-> JStr(Q_plain), params |-> NoParams]
      [] p = "sql_lower" -> [type |-> T_sql, sql |-> JStr(Q_lower)]
      [] p = "sql_delete" -> [type |-> T_sql, sql |-> JStr(Q_delete), params |-> NoParams]
      [] p = "sql_limit" -> [type |-> T_sql, sql |-> JStr(Q_limit), params |-> SomeParams]
      [] p = "sql_limit_nl" -> [type |-> T_sql, sql |-> JStr(Q_limit_nl), params |-> NoParams]
      [] p = "sql_literal" -> [type |-> T_sql, sql |-> JStr(Q_literal), params |-> NoParams]
      [] p = "sql_missing" -> [type |-> T_sql]
      [] p = "sql_number" -> [type |-> T_sql, sql |-> JInt]
      [] p = "query_plain" -> [type |-> T_query, sql |-> JStr(Q_plain)]
      [] p = "no_type" -> [sql |-> JStr(Q_plain)]
      [] p = "clarify" -> [type |-> T_clarify, question |-> JStr(<<"Which", " ", "semester?">>)]
      [] p = "clarify_bare" -> [type |-> T_clarify]

PayloadIds == {"sql_plain", "sql_lower", "sql_delete", "sql_limit", "sql_limit_nl",
               "sql_literal", "sql_missing", "sql_number", "query_plain", "no_type",
               "clarify", "clarify_bare"}

\* the texts the model function returns to a generation prompt
LlmSqlResponses ==
    {<<"{", p, "}">> : p \in PayloadIds}
    \cup { <<"Sure!", " ", "{", "clarify", "}", " ", "done.">>,
           <<" ", "{", "sql_plain", "}", "\n">>,
           <<"Sure!", " ", "{", "clarify", "}", " ", "see", " ", "{", "docs", "}", ".">>,
           <<"not", " ", "json">>,
           <<"[", "]">> }

\* the texts the model function returns to a synthesis prompt
LlmAnswers == {<<"Answer.">>, <<" ", "Answer.", "\n">>}

\* the texts str(e) of the errors the database raises, none of them empty;
\* the second is sqlite's message for a quoted name that spans three lines
DbErrors == { <<"no such table: fake_table">>,
              <<"no such table: x", "\n", " ", " ", "\n", "y">> }

(***************************************************************************)
(* json.loads and _parse_json.  A result is [ok, val, msg]: the value when *)
(* the text parses, the message of the exception raised when it does not.  *)
(***************************************************************************)
Parsed(v) == [ok |-> TRUE, val |-> v, msg |-> <<>>]
Failed(m) == [ok |-> FALSE, val |-> JInt, msg |-> m]

\* json.loads on the response grammar of the model: an object is the three
\* atoms "{" members "}", the empty list is "[" "]"; blanks around the
\* value are skipped, anything else is a JSONDecodeError
JsonLoads(s) ==
    LET v == Strip(s)
    IN  IF Len(v) = 3 /\ v[1] = "{" /\ v[3] = "}" /\ v[2] \in PayloadIds
        THEN Parsed(JDict(Payload(v[2])))
        ELSE IF v = <<"[", "]">> THEN Parsed(JList)
        ELSE IF Len(v) > 3 /\ v[1] = "{" /\ v[3] = "}" /\ v[2] \in PayloadIds
        THEN Failed(<<"Extra data">>)
        ELSE IF Len(v) > 0 /\ v[1] = "{"
        THEN Failed(<<"Expecting property name enclosed in double quotes">>)
        ELSE Failed(<<"Expecting value">>)

_parse_json(text) ==
    LET s == Strip(text)
        direct == JsonLoads(s)
        start == Find(s, "{")
        end == RFind(s, "}")
    IN  IF direct.ok THEN direct
        ELSE IF start # -1 /\ end > start
        THEN JsonLoads(SubSeq(s, start + 1, end + 1))
        ELSE direct

(***************************************************************************)
(* The database.  execute(sql) either raises one of DbErrors or returns a  *)
(* result set; a LIMIT clause that ends the statement caps the number of   *)
(* rows returned, and a statement with two LIMIT clauses is a syntax error.*)
(***************************************************************************)
IsDigit(c) == \E i \in 1..10 : DigitChars[i] = c
DigitVal(c) == (CHOOSE i \in 1..10 : DigitChars[i] = c) - 1

RECURSIVE TextToInt(_)
TextToInt(ds) ==
    IF Len(ds) = 0 THEN 0
    ELSE 10 * TextToInt(SubSeq(ds, 1, Len(ds) - 1)) + DigitVal(ds[Len(ds)])

\* length of the longest suffix of s made of digits, and of blanks
TrailDigits(s) ==
    LET stop == {i \in 1..Len(s) : ~IsDigit(s[i])}
    IN  IF stop = {} THEN Len(s) ELSE Len(s) - SetMax(stop)
TrailSpaces(s) ==
    LET stop == {i \in 1..Len(s) : ~IsSpace(s[i])}
    IN  IF stop = {} THEN Len(s) ELSE Len(s) - SetMax(stop)

\* the LIMIT clause a statement ends with, as the database parses it:
\* blank, LIMIT in any case, blank(s), digits
LimitClause(sql) ==
    LET nd == TrailDigits(sql)
        s1 == SubSeq(sql, 1, Len(sql) - nd)
        ns == TrailSpaces(s1)
        s2 == SubSeq(s1, 1, Len(s1) - ns)
        kw == EndsWith(Lower(s2), <<"l", "i", "m", "i", "t">>)
        s3 == SubSeq(s2, 1, Len(s2) - 5)
        has == nd > 0 /\ ns > 0 /\ kw /\ Len(s3) > 0 /\ IsSpace(s3[Len(s3)])
    IN  [has |-> has,
         bound |-> IF has THEN TextToInt(SubSeq(sql, Len(sql) - nd + 1, Len(sql))) ELSE 0,
         rest |-> IF has THEN Strip(s3) ELSE sql]

\* the result set of n rows of table t(a)
ResultSet(n) == [ok |-> TRUE, err |-> <<>>,
                 rows |-> [i \in 1..n |-> <<i>>],
                 description |-> << <<<<"a">>, "None">> >>]

DbError(e) == [ok |-> FALSE, err |-> e, rows |-> <<>>, description |-> <<>>]

\* what cur.execute(sql) followed by cur.fetchall() can produce
DbOutcomes(sql) ==
    LET lc == LimitClause(sql)
        cap == IF lc.has /\ lc.bound < TableRows THEN lc.bound ELSE TableRows
    IN  {DbError(e) : e \in DbErrors}
        \cup (IF lc.has /\ LimitClause(lc.rest).has THEN {}
              ELSE {ResultSet(n) : n \in 0..cap})

(***************************************************************************)
(* The nodes of the graph, as functions of the dict they receive and of    *)
(* the collaborator's reply.                                               *)
(***************************************************************************)
JNone == [t |-> "none", s |-> <<>>, d |-> EmptyDict]

\* load_schema: state["schema"] = _schema_text(conn)
load_schema(st) ==
    LET st1 == Update(st, "schema" :> SchemaText)
    IN  Trace(st1, "load_schema", [chars |-> Len(st1["schema"])])

\* a counter step that adds two
inc_attempts_by_two(st) ==
    LET st1 == Update(st, "attempts" :> (Get(st, "attempts", 0) + 2))
    IN  Trace(st1, "attempt", [n |-> st1["attempts"]])

\* inc_attempts, the node named "attempt"
inc_attempts(st) ==
    LET st1 == Update(st, "attempts" :> (Get(st, "attempts", 0) + 1))
    IN  Trace(st1, "attempt", [n |-> st1["attempts"]])

\* obj.get("type") == "clarify"
IsClarify(obj) ==
    LET v == Get(obj, "type", JNone) IN v.t = "str" /\ v.s = <<"clarify">>

\* a guard that lets every statement through
IsSelect_any(sql) == TRUE

\* sql.lower().startswith("select")
IsSelect(sql) == StartsWith(Lower(sql), <<"s", "e", "l", "e", "c", "t">>)

\* " limit " not in sql.lower()
LacksLimit(sql) == ~Contains(Lower(sql), <<" ", "l", "i", "m", "i", "t", " ">>)

\* sql += f" LIMIT {cfg.max_rows}"
AppendLimit(sql) == sql \o <<" ", "L", "I", "M", "I", "T", " ">> \o IntToText(cfg.max_rows)

\* obj.get("params") or {}
ParamsOf(obj) ==
    LET v == Get(obj, "params", JNone)
    IN  IF v.t = "dict" /\ DOMAIN v.d # {} THEN v.d ELSE EmptyDict

\* the prompt gen_sql passes to the model function
GenPrompt(st) == _sql_prompt(st["question"], st["schema"], Get(st, "last_error", <<>>))

\* gen_sql on the response text raw.  branch names the return statement
\* taken; raised is the exception that leaves the node, "" when none does.
gen_sql(st, raw) ==
    LET st1 == Trace(st, "llm_raw", [raw |-> raw])
        res == _parse_json(raw)
        obj == res.val.d
        sqlv == Get(obj, "sql", JStr(<<>>))
        sql == RStripSemi(Strip(sqlv.s))
        limited == IF LacksLimit(sql) THEN AppendLimit(sql) ELSE sql
    IN  IF ~res.ok
        THEN [state |-> Update(st1, [decision |-> "sql", sql |-> <<>>, sql_params |-> EmptyDict,
                                      last_error |-> <<"Invalid JSON: ">> \o res.msg]),
              branch |-> "invalid_json", raised |-> ""]
        ELSE IF res.val.t # "dict"
        THEN [state |-> st1, branch |-> "raised", raised |-> "AttributeError"]
        ELSE IF IsClarify(obj)
        THEN [state |-> Update(st1, [decision |-> "clarify",
                                      clarification_question |->
                                          Get(obj, "question", JStr(<<"Can you clarify?">>)).s]),
              branch |-> "clarify", raised |-> ""]
        ELSE IF sqlv.t # "str"
        THEN [state |-> st1, branch |-> "raised", raised |-> "AttributeError"]
        ELSE IF ~IsSelect(sql)
        THEN [state |-> Update(st1, [decision |-> "sql", sql |-> <<>>, sql_params |-> EmptyDict,
                                      last_error |-> <<"Only SELECT allowed.">>]),
              branch |-> "rejected", raised |-> ""]
        ELSE [state |-> Trace(Update(st1, [decision |-> "sql", sql |-> limited,
                                            sql_params |-> ParamsOf(obj), last_error |-> <<>>]),
                              "gen_sql", [sql |-> limited]),
              branch |-> "stored", raised |-> ""]

\* whether exec_sql reaches cur.execute on this dict
Executes(st) == Truthy(Get(st, "sql", <<>>))

\* an execution step whose failure branch leaves rows and columns alone
exec_sql_keeps_rows(st, out) ==
    IF ~Executes(st)
    THEN Update(st, "last_error" :>
                    (IF Truthy(Get(st, "last_error", <<>>)) THEN st["last_error"]
                     ELSE <<"No SQL produced.">>))
    ELSE IF out.ok
    THEN Trace(Update(st, [rows |-> out.rows,
                           columns |-> [i \in 1..Len(out.description) |-> out.description[i][1]],
                           last_error |-> <<>>]),
               "exec_sql", [rows |-> Len(out.rows)])
    ELSE Trace(Update(st, "last_error" :> out.err),
               "exec_sql_error", [error |-> out.err])

\* an execution step that records "No SQL produced." whenever it has no query
exec_sql_overwrites_error(st, out) ==
    IF ~Executes(st)
    THEN Update(st, "last_error" :> <<"No SQL produced.">>)
    ELSE IF out.ok
    THEN Trace(Update(st, [rows |-> out.rows,
                           columns |-> [i \in 1..Len(out.description) |-> out.description[i][1]],
                           last_error |-> <<>>]),
               "exec_sql", [rows |-> Len(out.rows)])
    ELSE Trace(Update(st, [columns |-> <<>>, rows |-> <<>>, last_error |-> out.err]),
               "exec_sql_error", [error |-> out.err])

\* an execution step whose success branch leaves last_error as it was
exec_sql_keeps_error(st, out) ==
    IF ~Executes(st)
    THEN Update(st, "last_error" :>
                    (IF Truthy(Get(st, "last_error", <<>>)) THEN st["last_error"]
                     ELSE <<"No SQL produced.">>))
    ELSE IF out.ok
    THEN Trace(Update(st, [rows |-> out.rows,
                           columns |-> [i \in 1..Len(out.description) |-> out.description[i][1]]]),
               "exec_sql", [rows |-> Len(out.rows)])
    ELSE Trace(Update(st, [columns |-> <<>>, rows |-> <<>>, last_error |-> out.err]),
               "exec_sql_error", [error |-> out.err])

\* exec_sql; out is what the database does with the statement
exec_sql(st, out) ==
    IF ~Executes(st)
    THEN Update(st, "last_error" :>
                    (IF Truthy(Get(st, "last_error", <<>>)) THEN st["last_error"]
                     ELSE <<"No SQL produced.">>))
    ELSE IF out.ok
    THEN Trace(Update(st, [rows |-> out.rows,
                           columns |-> [i \in 1..Len(out.description) |-> out.description[i][1]],
                           last_error |-> <<>>]),
               "exec_sql", [rows |-> Len(out.rows)])
    ELSE Trace(Update(st, [columns |-> <<>>, rows |-> <<>>, last_error |-> out.err]),
               "exec_sql_error", [error |-> out.err])

\* the fixed text of the second case of answer
ErrorTemplate(last_error) ==
    <<"Couldn't run a valid SQL query.", "\n", "Error: ">> \o last_error
    \o <<"\n", "Try rephrasing or adding missing details.">>

\* a case analysis that looks at the error before the decision
AnswerCase_error_first(st) ==
    IF Truthy(Get(st, "last_error", <<>>)) THEN "error"
    ELSE IF Get(st, "decision", "") = "clarify" THEN "clarify"
    ELSE "synthesis"

\* a case analysis without the error case
AnswerCase_no_error(st) ==
    IF Get(st, "decision", "") = "clarify" THEN "clarify" ELSE "synthesis"

\* which of the three cases of answer applies
AnswerCase(st) ==
    IF Get(st, "decision", "") = "clarify" THEN "clarify"
    ELSE IF Truthy(Get(st, "last_error", <<>>)) THEN "error"
    ELSE "synthesis"

\* the prompt answer passes to the model function in its third case
AnswerPrompt(st) ==
    _answer_prompt(st["question"], st["sql"],
                   Get(st, "columns", <<>>), Get(st, "rows", <<>>))

\* an answer node that stores the model's reply as it came
answer_unstripped(st, out) ==
    LET text == CASE AnswerCase(st) = "clarify" ->
                         Get(st, "clarification_question", <<"Can you clarify?">>)
                  [] AnswerCase(st) = "error" -> ErrorTemplate(st["last_error"])
                  [] OTHER -> out
        st1 == Update(st, "answer" :> text)
    IN  Trace(st1, "answer", [answer |-> st1["answer"]])

\* answer; out is the model's reply, used in the third case only
answer(st, out) ==
    LET text == CASE AnswerCase(st) = "clarify" ->
                         Get(st, "clarification_question", <<"Can you clarify?">>)
                  [] AnswerCase(st) = "error" -> ErrorTemplate(st["last_error"])
                  [] OTHER -> Strip(out)
        st1 == Update(st, "answer" :> text)
    IN  Trace(st1, "answer", [answer |-> st1["answer"]])

\* a retry predicate with an off-by-one bound on attempts
should_retry_le(st) ==
    IF Get(st, "decision", "") # "clarify" /\ Truthy(Get(st, "last_error", <<>>))
       /\ Get(st, "attempts", 0) <= cfg.max_attempts
    THEN "retry"
    ELSE "no_retry"

\* a retry predicate that does not look at the decision
should_retry_any_decision(st) ==
    IF Truthy(Get(st, "last_error", <<>>)) /\ Get(st, "attempts", 0) < cfg.max_attempts
    THEN "retry"
    ELSE "no_retry"

\* should_retry, the conditional edge after exec_sql
should_retry(st) ==
    IF Get(st, "decision", "") # "clarify" /\ Truthy(Get(st, "last_error", <<>>))
       /\ Get(st, "attempts", 0) < cfg.max_attempts
    THEN "retry"
    ELSE "no_retry"

(***************************************************************************)
(* The run.  pc is the node the graph runs next; "done" is END and         *)
(* "raised" is an exception leaving app.invoke.  llm_calls and db_calls    *)
(* record every call made to the two collaborators: for the model the      *)
(* prompt, the reply, the last_error the step started with and the return  *)
(* statement the step took; for the database the statement, its            *)
(* parameters, the outcome and the value of attempts.                      *)
(***************************************************************************)
NoExc == [node |-> "", type |-> ""]

\* run_question: AgentConfig and the initial dict of line 311
Init ==
    /\ cfg \in [max_attempts : 1..MaxAttemptsBound, max_rows : 1..MaxRowsBound]
    /\ \E q \in Questions : state = [question |-> q, trace |-> <<>>, attempts |-> 0]
    /\ pc = "load_schema"
    /\ exc = NoExc
    /\ llm_calls = <<>>
    /\ db_calls = <<>>

\* node load_schema, edge to attempt; a failing catalog query is fatal
LoadSchema ==
    /\ pc = "load_schema"
    /\ \/ /\ state' = load_schema(state)
          /\ pc' = "attempt"
          /\ exc' = exc
       \/ /\ \E e \in DbErrors : exc' = [node |-> "load_schema", type |-> "OperationalError"]
          /\ pc' = "raised"
          /\ state' = state
    /\ UNCHANGED <<cfg, llm_calls, db_calls>>

\* node attempt, edge to gen_sql
IncAttempts ==
    /\ pc = "attempt"
    /\ state' = inc_attempts(state)
    /\ pc' = "gen_sql"
    /\ UNCHANGED <<cfg, exc, llm_calls, db_calls>>

\* node gen_sql, edge to exec_sql
GenSql ==
    /\ pc = "gen_sql"
    /\ \E raw \in LlmSqlResponses :
         LET r == gen_sql(state, raw)
         IN  /\ state' = r.state
             /\ llm_calls' = Append(llm_calls, [kind |-> "sql", prompt |-> GenPrompt(state),
                                                last_error |-> Get(state, "last_error", <<>>),
                                                raw |-> raw, branch |-> r.branch])
             /\ IF r.raised = ""
                THEN pc' = "exec_sql" /\ exc' = exc
                ELSE pc' = "raised" /\ exc' = [node |-> "gen_sql", type |-> r.raised]
    /\ UNCHANGED <<cfg, db_calls>>

\* node exec_sql and the conditional edge should_retry
ExecSql ==
    /\ pc = "exec_sql"
    /\ \/ /\ ~Executes(state)
          /\ state' = exec_sql(state, DbError(<<>>))
          /\ db_calls' = db_calls
       \/ /\ Executes(state)
          /\ \E out \in DbOutcomes(state["sql"]) :
               /\ state' = exec_sql(state, out)
               /\ db_calls' = Append(db_calls, [sql |-> state["sql"],
                                                params |-> Get(state, "sql_params", EmptyDict),
                                                out |-> out,
                                                attempt |-> state["attempts"]])
    /\ pc' = IF should_retry(state') = "retry" THEN "attempt" ELSE "answer"
    /\ UNCHANGED <<cfg, exc, llm_calls>>

\* node answer, edge to END
Answer ==
    /\ pc = "answer"
    /\ \/ /\ AnswerCase(state) # "synthesis"
          /\ state' = answer(state, <<>>)
          /\ llm_calls' = llm_calls
       \/ /\ AnswerCase(state) = "synthesis"
          /\ \E out \in LlmAnswers :
               /\ state' = answer(state, out)
               /\ llm_calls' = Append(llm_calls, [kind |-> "answer", prompt |-> AnswerPrompt(state),
                                                  last_error |-> Get(state, "last_error", <<>>),
                                                  raw |-> out, branch |-> "synthesis"])
    /\ pc' = "done"
    /\ UNCHANGED <<cfg, exc, db_calls>>

Next == LoadSchema \/ IncAttempts \/ GenSql \/ ExecSql \/ Answer

Spec == Init /\ [][Next]_vars

(***************************************************************************)
(* Observations used by the properties.                                    *)
(***************************************************************************)
\* the generation calls made so far, in order
GenCalls == SelectSeq(llm_calls, LAMBDA c : c.kind = "sql")

\* the synthesis calls made so far
SynthCalls == SelectSeq(llm_calls, LAMBDA c : c.kind = "answer")

\* positions of the trace events of the given nodes
EventsOf(nodes) == {i \in 1..Len(state["trace"]) : state["trace"][i].node \in nodes}

\* the query text a response carries once blanks and trailing ";" are
\* removed; the empty text when the response carries none
QueryOf(raw) ==
    LET res == _parse_json(raw)
        v == IF res.ok /\ res.val.t = "dict" THEN Get(res.val.d, "sql", JStr(<<>>)) ELSE JStr(<<>>)
    IN  RStripSemi(Strip(v.s))

\* the response is an object that is not a clarify request and carries a text query
CarriesQuery(raw) ==
    LET res == _parse_json(raw)
    IN  /\ res.ok /\ res.val.t = "dict"
        /\ ~(Get(res.val.d, "type", JNone).t = "str" /\ Get(res.val.d, "type", JNone).s = <<"clarify">>)
        /\ Get(res.val.d, "sql", JStr(<<>>)).t = "str"

BeginsWithSelect(text) ==
    Len(text) >= 6 /\ Lower(SubSeq(text, 1, 6)) = <<"s", "e", "l", "e", "c", "t">>

LastOf(seq) == seq[Len(seq)]

\* the step that just ended was an exec_sql whose statement the database ran
JustExecutedOk ==
    /\ pc \in {"answer", "done"}
    /\ Len(db_calls) > 0
    /\ LastOf(db_calls).out.ok
    /\ LastOf(db_calls).attempt = Len(GenCalls)

\* the response is an object whose type tag is absent, or is neither the
\* tag of a query ("sql" in the prompt of the code, "query" also taken as
\* one here) nor "clarify"
UnknownTag(raw) ==
    LET res == _parse_json(raw)
    IN  /\ res.ok /\ res.val.t = "dict"
        /\ Get(res.val.d, "type", JNone) \notin {T_sql, T_query, T_clarify}

\* the error the cycle that just ended produced: the one gen_sql recorded
\* when it stored no query, the one the database raised when it did
CycleError ==
    LET g == LastOf(GenCalls)
    IN  CASE g.branch = "invalid_json" -> <<"Invalid JSON: ">> \o _parse_json(g.raw).msg
          [] g.branch = "rejected" -> <<"Only SELECT allowed.">>
          [] g.branch = "stored" /\ Len(db_calls) > 0 -> LastOf(db_calls).out.err
          [] OTHER -> <<>>

(***************************************************************************)
(* C1.  In every state of every run the attempts counter is at most        *)
(* max_attempts, and the attempt / gen_sql / exec_sql cycle has been       *)
(* entered at most max_attempts times: at most that many attempt events,   *)
(* generation calls and database executions.                               *)
(***************************************************************************)
C1_AttemptsBounded ==
    /\ state["attempts"] <= cfg.max_attempts
    /\ Cardinality(EventsOf({"attempt"})) <= cfg.max_attempts
    /\ Len(GenCalls) <= cfg.max_attempts
    /\ Len(db_calls) <= cfg.max_attempts

\* a run that used every attempt it had, more than one, and finished
C1_Witness ==
    /\ pc = "done"
    /\ cfg.max_attempts >= 2
    /\ state["attempts"] = cfg.max_attempts
    /\ Len(GenCalls) = cfg.max_attempts

(***************************************************************************)
(* C2 as stated.  Once the model has returned a clarify response in any    *)
(* cycle, no query has been or will be executed in the run, and rows and   *)
(* columns are unset.                                                      *)
(***************************************************************************)
C2_Original ==
    (\E i \in 1..Len(llm_calls) : llm_calls[i].branch = "clarify")
    => /\ db_calls = <<>>
       /\ "rows" \notin DOMAIN state
       /\ "columns" \notin DOMAIN state

(***************************************************************************)
(* C2 amended.  If the model returns a clarify response in a cycle and no  *)
(* earlier cycle of the run stored a query (each ended in a parse failure  *)
(* or a rejection; in particular when clarify comes in the first cycle),   *)
(* then no query is executed at any point of the run and rows and columns  *)
(* are unset.                                                              *)
(***************************************************************************)
C2_ClarifyBeforeAnyQuery ==
    (\E i \in 1..Len(llm_calls) :
        /\ llm_calls[i].branch = "clarify"
        /\ \A j \in 1..(i - 1) : llm_calls[j].branch \in {"invalid_json", "rejected"})
    => /\ db_calls = <<>>
       /\ "rows" \notin DOMAIN state
       /\ "columns" \notin DOMAIN state

\* a finished run whose second cycle was the clarify response
C2_Witness ==
    /\ pc = "done"
    /\ Len(llm_calls) = 2
    /\ llm_calls[1].branch \in {"invalid_json", "rejected"}
    /\ llm_calls[2].branch = "clarify"
    /\ db_calls = <<>>

(***************************************************************************)
(* C3.  Every statement handed to the database begins, in any case, with   *)
(* SELECT; when gen_sql returns from a response whose query does not begin *)
(* with SELECT, last_error is set and the stored query is empty; so no     *)
(* rejected query is among the executed ones.                              *)
(***************************************************************************)
C3_OnlySelectExecuted ==
    /\ \A i \in 1..Len(db_calls) : BeginsWithSelect(db_calls[i].sql)
    /\ (pc = "exec_sql" /\ CarriesQuery(LastOf(llm_calls).raw)
        /\ ~BeginsWithSelect(QueryOf(LastOf(llm_calls).raw)))
       => /\ state["sql"] = <<>>
          /\ state["last_error"] # <<>>
    /\ \A i \in 1..Len(llm_calls) : \A j \in 1..Len(db_calls) :
          (llm_calls[i].kind = "sql" /\ CarriesQuery(llm_calls[i].raw)
           /\ ~BeginsWithSelect(QueryOf(llm_calls[i].raw)))
          => db_calls[j].sql # QueryOf(llm_calls[i].raw)

\* a run that rejected a DELETE and later executed a statement
C3_Witness ==
    /\ Len(db_calls) > 0
    /\ \E i \in 1..Len(llm_calls) : llm_calls[i].raw = <<"{", "sql_delete", "}">>

(***************************************************************************)
(* C4 as stated.  No model response of the generation step makes an        *)
(* exception leave the run: gen_sql, exec_sql and answer never raise.      *)
(***************************************************************************)
C4_NoExceptionEscapes ==
    ~(pc = "raised" /\ exc.node \in {"gen_sql", "exec_sql", "answer"})

(***************************************************************************)
(* C5.  When a run has finished and its k-th generation response, the last *)
(* one, was stored as a query that the database then executed with         *)
(* success (the k-1 responses before it each ended their cycle in a parse  *)
(* failure, a rejection or a database error), then attempts = k,           *)
(* last_error is empty, rows and columns hold the result of that           *)
(* execution, and the answer is the reply of the one synthesis call,       *)
(* stripped.                                                               *)
(***************************************************************************)
C5_SuccessAfterRetries ==
    LET k == Len(GenCalls)
    IN  (/\ pc = "done"
         /\ JustExecutedOk
         /\ LastOf(GenCalls).branch = "stored"
         /\ \A i \in 1..(k - 1) : GenCalls[i].branch \in {"invalid_json", "rejected", "stored"})
        => /\ state["attempts"] = k
           /\ k <= cfg.max_attempts
           /\ state["last_error"] = <<>>
           /\ state["rows"] = LastOf(db_calls).out.rows
           /\ state["columns"] = [i \in 1..Len(LastOf(db_calls).out.description) |->
                                     LastOf(db_calls).out.description[i][1]]
           /\ Len(SynthCalls) = 1
           /\ LastOf(llm_calls).kind = "answer"
           /\ state["answer"] = Strip(LastOf(llm_calls).raw)

\* success in the second cycle after a failed first one, with rows, and a
\* synthesis reply that had blanks around it
C5_Witness ==
    /\ pc = "done"
    /\ JustExecutedOk
    /\ Len(GenCalls) = 2
    /\ GenCalls[2].branch = "stored"
    /\ Len(state["rows"]) > 0
    /\ LastOf(llm_calls).raw # state["answer"]

(***************************************************************************)
(* C6.  When a run has finished with decision other than clarify and       *)
(* last_error non-empty, the answer is the fixed text                      *)
(* "Couldn't run a valid SQL query." / "Error: <last_error>" /             *)
(* "Try rephrasing or adding missing details." around exactly the current  *)
(* last_error, and the answer step made no call to the model.              *)
(***************************************************************************)
C6_ErrorTemplate ==
    (/\ pc = "done"
     /\ Get(state, "decision", "") # "clarify"
     /\ Get(state, "last_error", <<>>) # <<>>)
    => /\ state["answer"] = <<"Couldn't run a valid SQL query.", "\n", "Error: ">>
                            \o state["last_error"]
                            \o <<"\n", "Try rephrasing or adding missing details.">>
       /\ SynthCalls = <<>>
       /\ LastOf(llm_calls).kind = "sql"

\* a finished run whose every cycle failed, the last one in the database
C6_Witness ==
    /\ pc = "done"
    /\ Get(state, "decision", "") = "sql"
    /\ Len(db_calls) > 0
    /\ ~LastOf(db_calls).out.ok
    /\ state["last_error"] = LastOf(db_calls).out.err

(***************************************************************************)
(* C7 as stated.  The prompt of every generation call after the first      *)
(* contains the last_error text the cycle before it ended with, and the    *)
(* prompt of the first call has no repair section.                         *)
(***************************************************************************)
C7_RetryPromptQuotesError ==
    \A i \in 1..Len(GenCalls) :
        IF i = 1
        THEN ~Contains(GenCalls[i].prompt, <<"Previous SQL failed: ">>)
        ELSE /\ GenCalls[i].last_error # <<>>
             /\ Contains(GenCalls[i].prompt, GenCalls[i].last_error)

(***************************************************************************)
(* C8 as stated.  The trace of every completed run holds a load_schema     *)
(* event, then a query-generation event (llm_raw or gen_sql), then an      *)
(* execution event (exec_sql or exec_sql_error), then an answer event.     *)
(***************************************************************************)
C8_TraceHasKeyEvents ==
    pc = "done"
    => \E a \in EventsOf({"load_schema"}) : \E b \in EventsOf({"llm_raw", "gen_sql"}) :
       \E c \in EventsOf({"exec_sql", "exec_sql_error"}) : \E d \in EventsOf({"answer"}) :
          a < b /\ b < c /\ c < d

(***************************************************************************)
(* C9 as stated.  When gen_sql has stored the query of a response: if the  *)
(* query has no LIMIT clause, the stored text is the query followed by     *)
(* " LIMIT <max_rows>"; if it has one, the stored text is the query        *)
(* itself.                                                                 *)
(***************************************************************************)
C9_LimitAppendedIffMissing ==
    (pc = "exec_sql" /\ LastOf(llm_calls).branch = "stored")
    => LET q == QueryOf(LastOf(llm_calls).raw)
       IN  IF LimitClause(q).has
           THEN state["sql"] = q
           ELSE state["sql"] = q \o <<" ", "L", "I", "M", "I", "T", " ">> \o IntToText(cfg.max_rows)

(***************************************************************************)
(* C10 as stated.  After every successful exec_sql step the number of rows *)
(* stored is at most max_rows, whatever SELECT query the model wrote.      *)
(***************************************************************************)
C10_RowsAtMostMaxRows ==
    JustExecutedOk => Len(state["rows"]) <= cfg.max_rows

(***************************************************************************)
(* C11 as stated.  Every run whose schema load returned stops at END and   *)
(* nowhere else, after at most 2 + 3 * max_attempts steps; when it has     *)
(* stopped the answer step has run exactly once, as the last step, and     *)
(* before that the answer field is not written.                            *)
(***************************************************************************)
C11_StopsAtEndWithOneAnswer ==
    /\ (pc = "raised" => exc.node = "load_schema")
    /\ Len(llm_calls) + Len(db_calls) <= 2 * cfg.max_attempts + 1
    /\ pc = "done" => /\ "answer" \in DOMAIN state
                      /\ Cardinality(EventsOf({"answer"})) = 1
                      /\ LastOf(state["trace"]).node = "answer"
    /\ pc # "done" => /\ "answer" \notin DOMAIN state
                      /\ EventsOf({"answer"}) = {}

(***************************************************************************)
(* C12 as stated.  A response text made of prose, an object and prose      *)
(* again parses to the same object as the object alone.                    *)
(***************************************************************************)
C12_WrappedParsesAsBare ==
    \A c \in 1..Len(llm_calls) :
        LET raw == llm_calls[c].raw
        IN  \A i \in 2..(Len(raw) - 3) :
               (llm_calls[c].kind = "sql" /\ raw[i] = "{" /\ raw[i + 1] \in PayloadIds
                /\ raw[i + 2] = "}")
               => /\ _parse_json(raw).ok
                  /\ _parse_json(raw).val.d = _parse_json(SubSeq(raw, i, i + 2)).val.d

(***************************************************************************)
(* C13 as stated.  No database execution happens in a cycle whose          *)
(* generation step set decision = clarify, nor in any later step.          *)
(***************************************************************************)
C13_NoExecutionAfterClarify ==
    \A j \in 1..Len(db_calls) :
        \A i \in 1..db_calls[j].attempt : GenCalls[i].branch # "clarify"

C15_OnePathDeterminesAnswer ==
    pc = "done"
    => LET obj == _parse_json(LastOf(GenCalls).raw).val.d
       IN  IF state["decision"] = "clarify"
           THEN /\ state["answer"] = Get(obj, "question", JStr(<<"Can you clarify?">>)).s
                /\ SynthCalls = <<>>
           ELSE IF state["last_error"] # <<>>
           THEN /\ state["answer"] = ErrorTemplate(state["last_error"])
                /\ SynthCalls = <<>>
           ELSE /\ Len(SynthCalls) = 1
                /\ state["answer"] = Strip(SynthCalls[1].raw)

\* a run finished by a clarify response in its second cycle, with the
\* error of the first cycle still in last_error
C15_Witness ==
    /\ pc = "done"
    /\ state["decision"] = "clarify"
    /\ state["last_error"] # <<>>
    /\ Len(GenCalls) = 2
    /\ state["answer"] = <<"Which", " ", "semester?">>

(***************************************************************************)
(* C16.  attempts is 0 when the run starts; the attempt step adds exactly  *)
(* 1 to it and no other step changes it; and whenever a cycle has ended    *)
(* (exec_sql has returned) attempts is the number of generation calls      *)
(* made so far, whatever way each of them ended.                           *)
(***************************************************************************)
C16_AttemptsCountsCycles ==
    /\ state["attempts"] = 0
    /\ [][/\ state'["attempts"] = state["attempts"] + (IF pc = "attempt" THEN 1 ELSE 0)
           /\ pc = "exec_sql" => state'["attempts"] = Len(GenCalls')]_vars

\* two cycles have ended, neither of which reached the database
C16_Witness ==
    /\ pc = "answer"
    /\ state["attempts"] = 2
    /\ Len(GenCalls) = 2
    /\ GenCalls[1].branch = "invalid_json"
    /\ GenCalls[2].branch = "rejected"
    /\ db_calls = <<>>

(***************************************************************************)
(* C17.  A database execution that succeeded is the last step of the last  *)
(* cycle: the next step is answer and last_error is empty from then on.    *)
(* Whenever a retry cycle begins, last_error is not empty and is the error *)
(* of the cycle that just ended.                                           *)
(***************************************************************************)
C17_LastErrorTracksLastCycle ==
    /\ \A j \in 1..Len(db_calls) :
          db_calls[j].out.ok
          => /\ j = Len(db_calls)
             /\ db_calls[j].attempt = Len(GenCalls)
             /\ pc \in {"answer", "done"}
             /\ state["last_error"] = <<>>
    /\ (pc = "attempt" /\ state["attempts"] >= 1)
       => /\ state["last_error"] # <<>>
          /\ state["last_error"] = CycleError
          /\ LastOf(GenCalls).branch = "stored"
             => /\ db_calls # <<>>
                /\ LastOf(db_calls).attempt = state["attempts"]

\* a retry that began with the error of a failed execution, and whose own
\* execution succeeded
C17_Witness ==
    /\ pc = "answer"
    /\ Len(db_calls) = 2
    /\ ~db_calls[1].out.ok
    /\ GenCalls[2].last_error = db_calls[1].out.err
    /\ db_calls[2].out.ok
    /\ state["last_error"] = <<>>

(***************************************************************************)
(* C18 as stated.  Every step that returns leaves the trace it found,      *)
(* unchanged, followed by exactly one new event.                           *)
(***************************************************************************)
C18_OneEventPerStep ==
    [][pc' # "raised"
       => /\ Len(state'["trace"]) = Len(state["trace"]) + 1
          /\ SubSeq(state'["trace"], 1, Len(state["trace"])) = state["trace"]]_vars

(***************************************************************************)
(* C19.  When gen_sql has ended in a parse failure or a rejection, the     *)
(* dict it hands to exec_sql has an empty query and the error of that      *)
(* generation in last_error; exec_sql then makes no database call and      *)
(* leaves the query and last_error as they are.  exec_sql writes           *)
(* "No SQL produced." only over an absent or empty last_error.             *)
(***************************************************************************)
C19_FailedGenerationSkipsExecution ==
    [][pc = "exec_sql"
       => /\ LastOf(GenCalls).branch \in {"invalid_json", "rejected"}
             => /\ state["sql"] = <<>>
                /\ state["last_error"] # <<>>
                /\ state["last_error"] = CycleError
                /\ db_calls' = db_calls
                /\ state'["sql"] = <<>>
                /\ state'["last_error"] = state["last_error"]
          /\ (db_calls' = db_calls /\ Get(state, "last_error", <<>>) # <<>>)
             => state'["last_error"] = state["last_error"]
          /\ (db_calls' = db_calls /\ Get(state, "last_error", <<>>) = <<>>)
             => state'["last_error"] = <<"No SQL produced.">>]_vars

\* the query of the first cycle reached the database and failed, the
\* response of the second was rejected, and exec_sql has returned
C19_Witness ==
    /\ pc = "answer"
    /\ Len(GenCalls) = 2
    /\ GenCalls[1].branch = "stored"
    /\ GenCalls[2].branch = "rejected"
    /\ Len(db_calls) = 1
    /\ state["sql"] = <<>>
    /\ state["last_error"] = <<"Only SELECT allowed.">>

(***************************************************************************)
(* C20.  As long as no execution has succeeded, rows and columns are       *)
(* absent or empty; once an execution has failed both are present and      *)
(* empty until one succeeds; rows are not empty only while last_error is   *)
(* empty; and a run that ended with the error template has no rows.       *)
(***************************************************************************)
C20_RowsOnlyAfterSuccess ==
    /\ (\A j \in 1..Len(db_calls) : ~db_calls[j].out.ok)
       => /\ Get(state, "rows", <<>>) = <<>>
          /\ Get(state, "columns", <<>>) = <<>>
    /\ (db_calls # <<>> /\ ~LastOf(db_calls).out.ok)
       => /\ {"rows", "columns"} \subseteq DOMAIN state
          /\ state["rows"] = <<>>
          /\ state["columns"] = <<>>
    /\ Get(state, "rows", <<>>) # <<>> => state["last_error"] = <<>>
    /\ (pc = "done" /\ state["answer"] = ErrorTemplate(state["last_error"]))
       => Get(state, "rows", <<>>) = <<>>

\* a run whose last execution failed and that ended with the error template
C20_Witness ==
    /\ pc = "done"
    /\ db_calls # <<>>
    /\ ~LastOf(db_calls).out.ok
    /\ state["answer"] = ErrorTemplate(LastOf(db_calls).out.err)
    /\ state["rows"] = <<>>

(***************************************************************************)
(* C21 as stated.  A generation response that is an object without a       *)
(* query or clarify type tag ends gen_sql as a failure: its query is not   *)
(* stored, the database is not called in that cycle, and the cycle ends    *)
(* with last_error set.                                                    *)
(***************************************************************************)
C21_UnknownTagIsFailure ==
    \A i \in 1..Len(GenCalls) :
        UnknownTag(GenCalls[i].raw)
        => /\ GenCalls[i].branch \notin {"stored", "clarify"}
           /\ \A j \in 1..Len(db_calls) : db_calls[j].attempt # i
           /\ (i = Len(GenCalls) /\ pc # "raised")
              => /\ state["sql"] = <<>>
                 /\ state["last_error"] # <<>>

(***************************************************************************)
(* C22.  The model function is called at most max_attempts + 1 times in a  *)
(* run: once in each cycle for generation, and at most once for synthesis. *)
(* The synthesis call is made by the answer step, as the last call of the  *)
(* run, and only when decision is not clarify and the execution of the     *)
(* last cycle succeeded, leaving last_error empty.                         *)
(***************************************************************************)
C22_ModelCallsBounded ==
    /\ Len(llm_calls) <= cfg.max_attempts + 1
    /\ Len(llm_calls) = Len(GenCalls) + Len(SynthCalls)
    /\ Len(GenCalls) = state["attempts"] - (IF pc = "gen_sql" THEN 1 ELSE 0)
    /\ Len(SynthCalls) <= 1
    /\ SynthCalls # <<>>
       => /\ pc = "done"
          /\ LastOf(llm_calls).kind = "answer"
          /\ state["decision"] # "clarify"
          /\ state["last_error"] = <<>>
          /\ JustExecutedOk
    /\ (pc = "done" /\ SynthCalls = <<>>)
       => (state["decision"] = "clarify" \/ state["last_error"] # <<>>)

\* a finished run that used both attempts and then the synthesis call
C22_Witness ==
    /\ pc = "done"
    /\ cfg.max_attempts = 2
    /\ Len(GenCalls) = 2
    /\ Len(SynthCalls) = 1
    /\ Len(llm_calls) = cfg.max_attempts + 1

====
